---- MODULE Spec2Model ----
(***************************************************************************)
(* Model of the experiment-data store of potential-outcomes: the reducer   *)
(* `simulationReducer` (contexts/SimulationContext/reducer.ts) with its    *)
(* undo/redo history.                                                      *)
(*                                                                         *)
(* JavaScript rows are objects: a table snapshot holds REFERENCES to row   *)
(* objects, and snapshots kept in `past`/`future` share row objects with   *)
(* the current table.  The model therefore keeps a heap of row objects;    *)
(* `userData.rows` and the rows of every snapshot are sequences of heap    *)
(* references.  Absent values (null) are the empty sequence, a present     *)
(* value v is <<v>>.                                                       *)
(***************************************************************************)
EXTENDS Integers, Sequences, FiniteSets, TLC

VARIABLES state, lastOp, crashed,
          rendered, queued, pendingEffects, fresh,
          abortControllerRef, timeoutIdRef, loops,
          simulationSpeedRef, invocations, evaluation

\* the provider around the reducer: the state captured by the closures of the
\* last render, the number of tasks that dispatched since it, the effects of
\* that render still to run, the arrays replaced since it, the two refs and
\* the activations of runSimulation, the ref that holds the speed of the delay,
\* and the calls of calculatePValue made by the last step: the call site and
\* the number of trials passed
providerVars ==
  <<rendered, queued, pendingEffects, fresh, abortControllerRef, timeoutIdRef, loops,
    simulationSpeedRef, invocations>>

\* evaluation is one application of a function of utils.ts: the function, its
\* arguments and, once it has returned, its result
vars == <<state, lastOp, crashed, providerVars, evaluation>>

\* ------------------------------------------------------------------ bounds
\* table size and history depth explored; MaxPastColumns is the history depth
\* of the column-only specification SpecColumns
MaxRows == 3
MaxCols == 5
MaxPast == 2
MaxPastColumns == 3
\* largest iteration budget passed to setTotalSimulations
MaxTotal == 3
\* simulation loops started in one behaviour
MaxLoops == 2
\* table replacements in one behaviour of the engine specifications
MaxTables == 1
\* tasks that dispatch before React renders, in the engine specifications
MaxQueued == 1
\* the same in the specification of the control calls
MaxBatched == 2

\* ------------------------------------------------------- option encoding
None == <<>>
Some(v) == <<v>>
IsNull(x) == x = <<>>
Val(x) == x[1]

\* ------------------------------------------------------------ input sets
CellValues == {7}
CellInputs == {None} \cup {Some(v) : v \in CellValues}
BlockInputs == {None, Some("b1")}
NameInputs == {"G", ""}

\* newName.trim() === '' : names made of white space only
IsBlank(name) == name \in {"", " "}

\* ---------------------------------------------------- sequence helpers
RECURSIVE Flatten(_)
Flatten(ss) == IF ss = <<>> THEN <<>> ELSE Head(ss) \o Flatten(Tail(ss))

RECURSIVE Dedup(_, _)
Dedup(seq, seen) ==
  IF seq = <<>> THEN <<>>
  ELSE IF Head(seq) \in seen THEN Dedup(Tail(seq), seen)
       ELSE <<Head(seq)>> \o Dedup(Tail(seq), seen \cup {Head(seq)})

Range(seq) == {seq[i] : i \in 1..Len(seq)}

IndexOf(seq, x) == CHOOSE i \in 1..Len(seq) : seq[i] = x

\* array.filter((_, index) => index !== k), k a 0-based index
RemoveAt(seq, k) ==
  IF k >= Len(seq) THEN seq
  ELSE [i \in 1..(Len(seq) - 1) |-> IF i <= k THEN seq[i] ELSE seq[i + 1]]

\* [...data.slice(0, c), value, ...data.slice(c + 1)], c a 0-based index
SpliceCell(data, c, value) ==
  SubSeq(data, 1, c) \o <<value>> \o SubSeq(data, c + 2, Len(data))

\* Array(n).fill(null)
Nulls(n) == [i \in 1..n |-> None]

\* -------------------------------------------------- template (constants)
Palette == <<"color-1", "color-2", "color-3", "color-4">>
FallbackColor == "text-gray-500"

\* emptyRow(columnCount)
emptyRow(n) == [data |-> Nulls(n), assignment |-> None, block |-> None]

TemplateRef == 1

TemplateUserData ==
  [columns    |-> <<[name |-> "Control", color |-> Palette[1]],
                    [name |-> "Treatment", color |-> Palette[2]]>>,
   rows       |-> <<TemplateRef>>,
   colorStack |-> SubSeq(Palette, 3, Len(Palette))]

TestStatisticKeys == <<"differenceInMeans", "wilcoxonRankSum">>
supportsMultipleTreatments ==
  [k \in Range(TestStatisticKeys) |-> FALSE]

\* the iteration budget of a new session, scaled down so that whole runs are
\* explored
InitialTotalSimulations == 2

\* the speed of a new session, a value of the speed slider's range
InitialSimulationSpeed == 50

\* array names the array object held in simulationResults: None for an array
\* literal of the reducer or of INITIAL_STATE, Some(j) for the local array of
\* the j-th simulation loop
NoResults ==
  [simulationResults |-> <<>>, array |-> None, pValue |-> None, observedStatistic |-> None]

INITIAL_STATE ==
  [userData |-> TemplateUserData,
   heap     |-> <<emptyRow(2)>>,
   past     |-> <<>>,
   future   |-> <<>>,
   settings |-> [simulationSpeed       |-> InitialSimulationSpeed,
                 selectedTestStatistic |-> TestStatisticKeys[1],
                 totalSimulations      |-> InitialTotalSimulations,
                 pValueType            |-> "two-tailed",
                 blockingEnabled       |-> FALSE],
   control  |-> [isSimulating |-> FALSE],
   results  |-> NoResults,
   error    |-> None]

\* ------------------------------------------------ heap and object identity
\* the rows of a snapshot, dereferenced
RowsOf(s, ud) == [i \in 1..Len(ud.rows) |-> s.heap[ud.rows[i]]]

\* a snapshot as a value: what an observer reading it sees
TableView(s, ud) ==
  [columns |-> ud.columns, rows |-> RowsOf(s, ud), colorStack |-> ud.colorStack]

CurrentView(s) == TableView(s, s.userData)
PastView(s) == [i \in 1..Len(s.past) |-> TableView(s, s.past[i])]
FutureView(s) == [i \in 1..Len(s.future) |-> TableView(s, s.future[i])]

\* References are renamed in order of first use and unreachable objects are
\* dropped; object identity is observable only through sharing, which this
\* keeps.  The template row is INITIAL_STATE's and is never collected.
LiveRefs(s) ==
  Dedup(<<TemplateRef>> \o s.userData.rows
          \o Flatten([i \in 1..Len(s.past) |-> s.past[i].rows])
          \o Flatten([i \in 1..Len(s.future) |-> s.future[i].rows]), {})

Canon(s) ==
  LET live == LiveRefs(s)
      ren(ud) == [ud EXCEPT !.rows = [i \in 1..Len(ud.rows) |-> IndexOf(live, ud.rows[i])]]
  IN [s EXCEPT !.heap = [i \in 1..Len(live) |-> s.heap[live[i]]],
               !.userData = ren(s.userData),
               !.past = [i \in 1..Len(s.past) |-> ren(s.past[i])],
               !.future = [i \in 1..Len(s.future) |-> ren(s.future[i])]]

\* ------------------------------------------------------------ the reducer
setError(s, message) == [s EXCEPT !.error = Some(message)]

updateHistory(s, newUserData) ==
  [s EXCEPT !.past = Append(s.past, s.userData),
            !.future = <<>>,
            !.userData = newUserData,
            !.error = None]

NRows(s) == Len(s.userData.rows)
NCols(s) == Len(s.userData.columns)

\* newRows[newRows.length - 1].assignment = 1 writes into the row object that
\* the pre-mutation snapshot (and every other snapshot holding it) shares
ADD_ROW(s) ==
  LET last == s.userData.rows[NRows(s)]
      h1 == [s.heap EXCEPT ![last].assignment = Some(1)]
      h2 == Append(h1, emptyRow(NCols(s)))
  IN updateHistory([s EXCEPT !.heap = h2],
                   [s.userData EXCEPT !.rows = Append(s.userData.rows, Len(h2))])

\* newRows[-1] is undefined when the table has no row: the assignment throws
ADD_ROW_throws(s) == NRows(s) = 0

\* payload: a table given by value (its row objects are new), or None
SET_USER_DATA(s, payload) ==
  IF IsNull(payload) THEN setError(s, "User data payload is required")
  ELSE LET p == Val(payload)
           n == Len(s.heap)
       IN updateHistory([s EXCEPT !.heap = s.heap \o p.rows],
                        [columns |-> p.columns,
                         rows |-> [i \in 1..Len(p.rows) |-> n + i],
                         colorStack |-> p.colorStack])

\* INITIAL_STATE.data.userData is the one template object, rows included
RESET_USER_DATA(s) ==
  [updateHistory(s, TemplateUserData) EXCEPT !.results = NoResults]

EMPTY_USER_DATA(s) ==
  LET n == Len(s.heap)
      old == RowsOf(s, s.userData)
      emptyRows == [i \in 1..NRows(s) |->
                      [data |-> Nulls(NCols(s)),
                       assignment |-> old[i].assignment,
                       block |-> None]]
  IN updateHistory([s EXCEPT !.heap = s.heap \o emptyRows],
                   [s.userData EXCEPT !.rows = [i \in 1..NRows(s) |-> n + i]])

DELETE_ROW(s, index) ==
  IF index < 0 \/ index >= NRows(s)
  THEN setError(s, "Invalid row index")
  ELSE updateHistory(s, [s.userData EXCEPT !.rows = RemoveAt(s.userData.rows, index)])

\* UPDATE_CELL without `if (isLastRow) updatedRow.assignment = columnIndex`
UPDATE_CELL_keepsAssignment(s, rowIndex, columnIndex, value) ==
  IF rowIndex < 0 \/ rowIndex >= NRows(s)
  THEN setError(s, "Invalid row index")
  ELSE IF columnIndex < 0 \/ columnIndex >= NCols(s)
  THEN setError(s, "Invalid column index")
  ELSE
    LET isLastRow == rowIndex = NRows(s) - 1
        row == s.heap[s.userData.rows[rowIndex + 1]]
        updatedRow == [row EXCEPT !.data = SpliceCell(row.data, columnIndex, value)]
        h1 == Append(s.heap, updatedRow)
        rows1 == [s.userData.rows EXCEPT ![rowIndex + 1] = Len(h1)]
        push == isLastRow /\ ~IsNull(value)
        h2 == IF push THEN Append(h1, emptyRow(NCols(s))) ELSE h1
        rows2 == IF push THEN Append(rows1, Len(h2)) ELSE rows1
    IN updateHistory([s EXCEPT !.heap = h2], [s.userData EXCEPT !.rows = rows2])

UPDATE_CELL(s, rowIndex, columnIndex, value) ==
  IF rowIndex < 0 \/ rowIndex >= NRows(s)
  THEN setError(s, "Invalid row index")
  ELSE IF columnIndex < 0 \/ columnIndex >= NCols(s)
  THEN setError(s, "Invalid column index")
  ELSE
    LET isLastRow == rowIndex = NRows(s) - 1
        row == s.heap[s.userData.rows[rowIndex + 1]]
        updatedRow == [row EXCEPT
                         !.data = SpliceCell(row.data, columnIndex, value),
                         !.assignment = IF isLastRow THEN Some(columnIndex) ELSE @]
        h1 == Append(s.heap, updatedRow)
        rows1 == [s.userData.rows EXCEPT ![rowIndex + 1] = Len(h1)]
        push == isLastRow /\ ~IsNull(value)
        h2 == IF push THEN Append(h1, emptyRow(NCols(s))) ELSE h1
        rows2 == IF push THEN Append(rows1, Len(h2)) ELSE rows1
    IN updateHistory([s EXCEPT !.heap = h2], [s.userData EXCEPT !.rows = rows2])

SET_BLOCK(s, rowIndex, block) ==
  IF rowIndex < 0 \/ rowIndex >= NRows(s)
  THEN setError(s, "Invalid row index")
  ELSE
    LET row == s.heap[s.userData.rows[rowIndex + 1]]
        h1 == Append(s.heap, [row EXCEPT !.block = block])
    IN updateHistory([s EXCEPT !.heap = h1],
                     [s.userData EXCEPT !.rows[rowIndex + 1] = Len(h1)])

SET_ASSIGNMENT(s, rowIndex, assignment) ==
  IF rowIndex < 0 \/ rowIndex >= NRows(s)
  THEN setError(s, "Invalid row index")
  ELSE IF ~IsNull(assignment) /\ (Val(assignment) < 0 \/ Val(assignment) >= NCols(s))
  THEN setError(s, "Invalid assignment")
  ELSE
    LET isLastRow == rowIndex = NRows(s) - 1
        row == s.heap[s.userData.rows[rowIndex + 1]]
        a == IF IsNull(assignment) THEN assignment
             ELSE Some(Val(assignment) % NCols(s))
        h1 == Append(s.heap, [row EXCEPT !.assignment = a])
        rows1 == [s.userData.rows EXCEPT ![rowIndex + 1] = Len(h1)]
        h2 == IF isLastRow THEN Append(h1, emptyRow(NCols(s))) ELSE h1
        rows2 == IF isLastRow THEN Append(rows1, Len(h2)) ELSE rows1
    IN updateHistory([s EXCEPT !.heap = h2], [s.userData EXCEPT !.rows = rows2])

RENAME_COLUMN(s, index, newName) ==
  IF index < 0 \/ index >= NCols(s)
  THEN setError(s, "Invalid column index")
  ELSE IF IsBlank(newName)
  THEN setError(s, "New column name cannot be empty")
  ELSE updateHistory(s, [s.userData EXCEPT !.columns[index + 1].name = newName])

\* Object.keys(testStatistics).find(key => ...supportsMultipleTreatments)
FirstMultiTreatment ==
  LET hits == {i \in 1..Len(TestStatisticKeys) :
                 supportsMultipleTreatments[TestStatisticKeys[i]]}
  IN IF hits = {} THEN None
     ELSE Some(TestStatisticKeys[CHOOSE i \in hits : \A j \in hits : i <= j])

ADD_COLUMN(s, newColumnName) ==
  IF IsBlank(newColumnName)
  THEN setError(s, "New column name cannot be empty")
  ELSE
    LET cs == s.userData.colorStack
        newColor == IF cs # <<>> THEN cs[1] ELSE FallbackColor
        newColorStack == IF cs # <<>> THEN Tail(cs) ELSE <<>>
        n == Len(s.heap)
        old == RowsOf(s, s.userData)
        rowsWithNewColumn == [i \in 1..NRows(s) |->
                                [old[i] EXCEPT !.data = Append(@, None)]]
        newColumns == Append(s.userData.columns,
                             [name |-> newColumnName, color |-> newColor])
        newState == updateHistory([s EXCEPT !.heap = s.heap \o rowsWithNewColumn],
                                  [columns |-> newColumns,
                                   rows |-> [i \in 1..NRows(s) |-> n + i],
                                   colorStack |-> newColorStack])
        switch == /\ NCols(s) = 2 /\ Len(newColumns) = 3
                  /\ ~supportsMultipleTreatments[s.settings.selectedTestStatistic]
                  /\ ~IsNull(FirstMultiTreatment)
    IN IF switch
       THEN [newState EXCEPT !.settings.selectedTestStatistic = Val(FirstMultiTreatment)]
       ELSE newState

REMOVE_COLUMN(s, columnIndexToRemove) ==
  IF columnIndexToRemove < 0 \/ columnIndexToRemove >= NCols(s)
  THEN setError(s, "Invalid column index")
  ELSE IF NCols(s) <= 2
  THEN setError(s, "Cannot remove column when there are only two columns")
  ELSE
    LET removedColumn == s.userData.columns[columnIndexToRemove + 1]
        n == Len(s.heap)
        old == RowsOf(s, s.userData)
        rowsWithColumnRemoved ==
          [i \in 1..NRows(s) |->
             [old[i] EXCEPT
                !.data = RemoveAt(@, columnIndexToRemove),
                !.assignment = IF IsNull(@) THEN @
                               ELSE IF Val(@) >= columnIndexToRemove
                                    THEN Some(Val(@) - 1) ELSE @]]
    IN updateHistory([s EXCEPT !.heap = s.heap \o rowsWithColumnRemoved],
                     [columns |-> RemoveAt(s.userData.columns, columnIndexToRemove),
                      rows |-> [i \in 1..NRows(s) |-> n + i],
                      colorStack |-> Append(s.userData.colorStack, removedColumn.color)])

\* UNDO that also throws the results away, as a table reset does
UNDO_wipesResults(s) ==
  IF Len(s.past) = 0
  THEN setError(s, "No more actions to undo")
  ELSE [s EXCEPT !.past = SubSeq(s.past, 1, Len(s.past) - 1),
                 !.userData = s.past[Len(s.past)],
                 !.future = <<s.userData>> \o s.future,
                 !.results = NoResults,
                 !.error = None]

\* UNDO whose failure path also drops the redo stack
UNDO_clearsFuture(s) ==
  IF Len(s.past) = 0
  THEN [setError(s, "No more actions to undo") EXCEPT !.future = <<>>]
  ELSE [s EXCEPT !.past = SubSeq(s.past, 1, Len(s.past) - 1),
                 !.userData = s.past[Len(s.past)],
                 !.future = <<s.userData>> \o s.future,
                 !.error = None]

UNDO(s) ==
  IF Len(s.past) = 0
  THEN setError(s, "No more actions to undo")
  ELSE [s EXCEPT !.past = SubSeq(s.past, 1, Len(s.past) - 1),
                 !.userData = s.past[Len(s.past)],
                 !.future = <<s.userData>> \o s.future,
                 !.error = None]

\* REDO that does not push the current table back onto past
REDO_keepsPast(s) ==
  IF Len(s.future) = 0
  THEN setError(s, "No more actions to redo")
  ELSE [s EXCEPT !.userData = s.future[1],
                 !.future = Tail(s.future),
                 !.error = None]

REDO(s) ==
  IF Len(s.future) = 0
  THEN setError(s, "No more actions to redo")
  ELSE [s EXCEPT !.past = Append(s.past, s.userData),
                 !.userData = s.future[1],
                 !.future = Tail(s.future),
                 !.error = None]

\* ------------------------------------------------- numbers (utils.ts)
\* JavaScript numbers that arise here are quotients of integers: [n, d] with
\* d > 0 in lowest terms; d = 0 stands for NaN (0 / 0)
RECURSIVE Gcd(_, _)
Gcd(a, b) == IF b = 0 THEN a ELSE Gcd(b, a % b)

Abs(x) == IF x < 0 THEN -x ELSE x

NaN == [n |-> 0, d |-> 0]

\* n / d with the common factor g taken out
Reduced(n, d, g) ==
  IF d < 0 THEN [n |-> -(n \div g), d |-> -(d \div g)]
  ELSE [n |-> n \div g, d |-> d \div g]

Quot(n, d) == IF d = 0 THEN NaN ELSE Reduced(n, d, Gcd(Abs(n), Abs(d)))

Num(i) == [n |-> i, d |-> 1]
IsNaN(x) == x.d = 0
Sub(x, y) == Quot(x.n * y.d - y.n * x.d, x.d * y.d)
AbsQ(x) == [n |-> Abs(x.n), d |-> x.d]
\* x >= y and x <= y; every comparison with NaN is false
Geq(x, y) == ~IsNaN(x) /\ ~IsNaN(y) /\ x.n * y.d >= y.n * x.d
Leq(x, y) == ~IsNaN(x) /\ ~IsNaN(y) /\ x.n * y.d <= y.n * x.d

\* the result of a statistic function that threw
Thrown == [n |-> 1, d |-> 0]
HasThrown(x) == x = Thrown

RECURSIVE SumSeq(_)
SumSeq(seq) == IF seq = <<>> THEN 0 ELSE Head(seq) + SumSeq(Tail(seq))

\* the elements of a set of integers in ascending order
Ascending(S) ==
  [k \in 1..Cardinality(S) |-> CHOOSE i \in S : Cardinality({j \in S : j < i}) = k - 1]

\* the elements of seq at the positions idx
Pick(seq, idx) == [k \in 1..Len(idx) |-> seq[idx[k]]]

\* rows.slice(0, -1).filter(row => row.data.every(value => value !== null))
filterValidRows(rows) ==
  Pick(rows, Ascending({i \in 1..(Len(rows) - 1) :
                          \A c \in 1..Len(rows[i].data) : ~IsNull(rows[i].data[c])}))

\* START_SIMULATION's completeRows
completeRows(rows) ==
  {i \in 1..Len(rows) :
     /\ \A c \in 1..Len(rows[i].data) : ~IsNull(rows[i].data[c])
     /\ ~IsNull(rows[i].assignment)}

\* row.data[k] for a property key k: a number only for an index inside the row
CellAt(row, key) ==
  IF ~IsNull(key) /\ Val(key) >= 0 /\ Val(key) < Len(row.data)
  THEN row.data[Val(key) + 1] ELSE None

\* the cell a statistic reads in a row: row.data[row.assignment] or row.data[0]
CellOf(row, own) == CellAt(row, IF own THEN row.assignment ELSE Some(0))

\* the rows whose cell is a number: those the reduce callback pushes
UsedRows(rows, own) == {i \in 1..Len(rows) : ~IsNull(CellOf(rows[i], own))}

CellsOf(rows, idx, own) == [k \in 1..Len(idx) |-> Val(CellOf(rows[idx[k]], own))]

\* the values pushed to acc[key], in row order
GroupValues(rows, key, own) ==
  CellsOf(rows, Ascending({i \in UsedRows(rows, own) : rows[i].assignment = key}), own)

\* a property key that is an array index
IsIndex(k) == ~IsNull(k) /\ Val(k) >= 0

IndexKeys(rows, used) ==
  {Val(rows[i].assignment) : i \in {j \in used : IsIndex(rows[j].assignment)}}

\* the rows that insert a key that is not an index
OtherKeyRows(rows, used) ==
  {i \in used : /\ ~IsIndex(rows[i].assignment)
                /\ \A j \in used : j < i => rows[j].assignment # rows[i].assignment}

KeyOrder(rows, ints, firsts) ==
  [k \in 1..Len(ints) |-> Some(ints[k])] \o [k \in 1..Len(firsts) |-> rows[firsts[k]].assignment]

GroupKeysOf(rows, used) ==
  KeyOrder(rows, Ascending(IndexKeys(rows, used)), Ascending(OtherKeyRows(rows, used)))

\* Object.values(groups): integer keys ascending, then the other keys (null,
\* negative numbers) in order of first insertion
GroupKeys(rows, own) == GroupKeysOf(rows, UsedRows(rows, own))

Mean(values) == IF Len(values) > 0 THEN Quot(SumSeq(values), Len(values)) ELSE Num(0)

GroupMeans(data, keys) ==
  [k \in 1..Len(keys) |-> Mean(GroupValues(data, keys[k], TRUE))]

\* groupMeans[0] - groupMeans[1]
MeansDifference_reversed(groupMeans) ==
  IF Len(groupMeans) >= 2 THEN Sub(groupMeans[1], groupMeans[2]) ELSE Num(0)

MeansDifference(groupMeans) ==
  IF Len(groupMeans) >= 2 THEN Sub(groupMeans[2], groupMeans[1]) ELSE Num(0)

differenceInMeans(data) ==
  IF Len(data) = 0 THEN Num(0)
  ELSE MeansDifference(GroupMeans(data, GroupKeys(data, TRUE)))

\* rank: a value's rank is 1 + the number of smaller values (the position of
\* the first element of its run in the sorted array)
rank(values) ==
  [i \in 1..Len(values) |->
     1 + Cardinality({j \in 1..Len(values) : values[j] < values[i]})]

\* Math.min(U1, U2) with U2 = n1 * n2 - U1
MinU(U1, n1, n2) == IF Leq(U1, Sub(Num(n1 * n2), U1)) THEN U1 ELSE Sub(Num(n1 * n2), U1)

\* U1 = rankSumGroup1 - (n1 * (n1 + 1)) / 2
UOf(rankSumGroup1, n1, n2) ==
  MinU(Quot(2 * rankSumGroup1 - n1 * (n1 + 1), 2), n1, n2)

RankSumOf(group1, group2) ==
  UOf(SumSeq(SubSeq(rank(group1 \o group2), 1, Len(group1))), Len(group1), Len(group2))

WilcoxonOf(data, keys) ==
  IF Len(keys) # 2 THEN Thrown
  ELSE RankSumOf(GroupValues(data, keys[1], FALSE), GroupValues(data, keys[2], FALSE))

wilcoxonRankSum(data) ==
  IF Len(data) = 0 THEN Num(0) ELSE WilcoxonOf(data, GroupKeys(data, FALSE))

\* testStatistics[key].function
testStatisticFunction(key, data) ==
  IF key = "differenceInMeans" THEN differenceInMeans(data) ELSE wilcoxonRankSum(data)

\* a null observed statistic is coerced to 0 by Math.abs and by <=, >=
OrZero(x) == IF IsNull(x) THEN Num(0) ELSE Val(x)

\* the statistic of every simulated trial
Statistics(simulationResults, testStatistic) ==
  [i \in 1..Len(simulationResults) |->
     testStatisticFunction(testStatistic, simulationResults[i])]

\* the filter callbacks with > and < in place of >= and <=
IsExtreme_strict(stat, orig, pValueType) ==
  IF pValueType = "two-tailed" THEN ~Leq(AbsQ(stat), AbsQ(orig))
  ELSE IF pValueType = "left-tailed" THEN ~Geq(stat, orig)
  ELSE ~Leq(stat, orig)

\* the filter callback of the chosen tail
IsExtreme(stat, orig, pValueType) ==
  IF pValueType = "two-tailed" THEN Geq(AbsQ(stat), AbsQ(orig))
  ELSE IF pValueType = "left-tailed" THEN Leq(stat, orig)
  ELSE Geq(stat, orig)

\* extremeCount / totalSimulations
ExtremeShare(stats, orig, pValueType) ==
  IF \E i \in 1..Len(stats) : HasThrown(stats[i]) THEN Thrown
  ELSE Quot(Cardinality({i \in 1..Len(stats) : IsExtreme(stats[i], orig, pValueType)}),
            Len(stats))

calculatePValue(originalTestStatistic, simulationResults, testStatistic, pValueType) ==
  ExtremeShare(Statistics(simulationResults, testStatistic),
               OrZero(originalTestStatistic), pValueType)

\* ------------------------------------- reducer: settings, control, results
PValueTypes == {"two-tailed", "left-tailed", "right-tailed"}

SET_SIMULATION_SPEED(s, speed) ==
  IF ~(speed >= 1 /\ speed <= 100)
  THEN setError(s, "Invalid simulation speed")
  ELSE [s EXCEPT !.settings.simulationSpeed = speed, !.error = None]

SET_SELECTED_TEST_STATISTIC(s, stat) ==
  IF stat \notin Range(TestStatisticKeys)
  THEN setError(s, "Invalid test statistic")
  ELSE [s EXCEPT !.settings.selectedTestStatistic = stat, !.error = None]

SET_P_VALUE_TYPE(s, type) ==
  IF type \notin PValueTypes
  THEN setError(s, "Invalid p-value type")
  ELSE [s EXCEPT !.settings.pValueType = type, !.error = None]

SET_TOTAL_SIMULATIONS(s, total) ==
  IF ~(total >= 1 /\ total <= 10000)
  THEN setError(s, "Invalid total simulations")
  ELSE [s EXCEPT !.settings.totalSimulations = total, !.error = None]

SET_BLOCKING_ENABLED(s, enabled) ==
  [s EXCEPT !.settings.blockingEnabled = enabled, !.error = None]

START_SIMULATION(s) ==
  IF s.control.isSimulating
  THEN setError(s, "Simulation is already running")
  ELSE IF Cardinality(completeRows(RowsOf(s, s.userData))) < 2
  THEN setError(s, "Cannot start simulation with insufficient data")
  ELSE [s EXCEPT !.control.isSimulating = TRUE, !.error = None]

PAUSE_SIMULATION(s) ==
  IF ~s.control.isSimulating
  THEN setError(s, "No simulation is currently running")
  ELSE [s EXCEPT !.control.isSimulating = FALSE, !.error = None]

CLEAR_SIMULATION_DATA(s) ==
  [s EXCEPT !.results = NoResults, !.error = None]

\* the payload is always an array here: the local array of loop j
SET_SIMULATION_RESULTS(s, payload, j) ==
  [s EXCEPT !.results.simulationResults = payload, !.results.array = Some(j),
            !.error = None]

\* NaN is a number and is neither < 0 nor > 1
SET_P_VALUE(s, payload) ==
  IF ~IsNaN(payload) /\ (payload.n < 0 \/ payload.n > payload.d)
  THEN setError(s, "Invalid p-value")
  ELSE [s EXCEPT !.results.pValue = Some(payload), !.error = None]

SET_OBSERVED_STATISTIC(s, payload) ==
  [s EXCEPT !.results.observedStatistic = Some(payload), !.error = None]

\* ------------------------------------------------------ one simulated trial
\* the results shuffleRowAssignments can give: the assignment vector is
\* permuted across the rows, within each block when blocking is enabled
shuffleRowAssignments(rows, blockingEnabled) ==
  {[i \in 1..Len(rows) |-> [rows[i] EXCEPT !.assignment = rows[f[i]].assignment]] :
     f \in {g \in Permutations(1..Len(rows)) :
              blockingEnabled => \A i \in 1..Len(rows) : rows[g[i]].block = rows[i].block}}

\* simulate is memoized with an empty dependency list: the state it reads is
\* the state of the first render
simulate(data) ==
  shuffleRowAssignments(filterValidRows(data), INITIAL_STATE.settings.blockingEnabled)

\* ------------------------------------------------ provider: the engine
\* w is the provider's world: the reducer state, the state captured by the
\* closures of the last render, the refs and the simulation loops. A loop is
\* runSimulation's activation: its arguments, its local array, the values
\* its closure captured, its delay timer, the speed its last delay was
\* computed from and the way it ended.
\* an activation that starts from no results
NewLoop_discards(snapshot) ==
  [data       |-> RowsOf(snapshot, snapshot.userData),
   iterations |-> snapshot.settings.totalSimulations,
   results    |-> <<>>,
   existing   |-> 0,
   observedStatistic     |-> snapshot.results.observedStatistic,
   selectedTestStatistic |-> snapshot.settings.selectedTestStatistic,
   pValueType |-> snapshot.settings.pValueType,
   aborted    |-> FALSE,
   timer      |-> "none",
   speed      |-> None,
   exit       |-> "running"]

NewLoop(snapshot) ==
  [data       |-> RowsOf(snapshot, snapshot.userData),
   iterations |-> snapshot.settings.totalSimulations,
   results    |-> snapshot.results.simulationResults,
   existing   |-> Len(snapshot.results.simulationResults),
   observedStatistic     |-> snapshot.results.observedStatistic,
   selectedTestStatistic |-> snapshot.settings.selectedTestStatistic,
   pValueType |-> snapshot.settings.pValueType,
   aborted    |-> FALSE,
   timer      |-> "none",
   speed      |-> None,
   exit       |-> "running"]

\* a loop that can never run again keeps nothing the program can reach
retire(w, j) ==
  [w EXCEPT !.loops[j] =
     [NewLoop(INITIAL_STATE) EXCEPT !.data = <<>>, !.iterations = 0,
                                    !.aborted = w.loops[j].aborted,
                                    !.timer = w.loops[j].timer,
                                    !.exit = w.loops[j].exit]]

\* a state that holds a reference to loop j's array sees its new content
seenThrough(s, j, array) ==
  IF s.results.array = Some(j) THEN [s EXCEPT !.results.simulationResults = array] ELSE s

grown(w, j, array) ==
  [w EXCEPT !.loops[j].results = array,
            !.state = seenThrough(@, j, array),
            !.rendered = seenThrough(@, j, array)]

\* simulationResults.push(result): seen through every reference to the array
push(w, j, result) == grown(w, j, Append(w.loops[j].results, result))

loopPValue(w, j) ==
  calculatePValue(w.loops[j].observedStatistic, w.loops[j].results,
                  w.loops[j].selectedTestStatistic, w.loops[j].pValueType)

\* calculatePValue is called at a call site with a list of trials
invoked(w, site, simulationResults) ==
  [w EXCEPT !.invocations = @ \cup {[site |-> site, trials |-> Len(simulationResults)]}]

\* dynamicDelay: a new timer whose id overwrites timeoutIdRef; its duration
\* is computed from simulationSpeedRef.current
dynamicDelay(w, j) ==
  [w EXCEPT !.loops[j].timer = "pending", !.loops[j].speed = Some(w.simulationSpeedRef),
            !.timeoutIdRef = Some(j)]

\* onProgress
onProgress(w, j, pValue) ==
  [w EXCEPT !.state = SET_P_VALUE(SET_SIMULATION_RESULTS(@, w.loops[j].results, j), pValue)]

\* the iteration from calculatePValue's result to the await
progress(pushed, j, currentPValue) ==
  IF HasThrown(currentPValue)
  THEN [pushed EXCEPT !.loops[j].exit = "threw"]
  ELSE dynamicDelay(onProgress(pushed, j, currentPValue), j)

\* the iteration after simulationResults.push(result)
iteration(pushed, j) ==
  progress(invoked(pushed, "loop", pushed.loops[j].results), j, loopPValue(pushed, j))

\* the loop with the condition i <= iterations
runSimulation_oneMore(w, j, result) ==
  IF Len(w.loops[j].results) > w.loops[j].iterations
  THEN [w EXCEPT !.loops[j].exit = "completed"]
  ELSE IF w.loops[j].aborted
  THEN [w EXCEPT !.loops[j].exit = "aborted"]
  ELSE iteration(push(w, j, result), j)

\* runSimulation from the loop condition up to the next await or return
runSimulation(w, j, result) ==
  IF Len(w.loops[j].results) >= w.loops[j].iterations
  THEN [w EXCEPT !.loops[j].exit = "completed"]
  ELSE IF w.loops[j].aborted
  THEN [w EXCEPT !.loops[j].exit = "aborted"]
  ELSE iteration(push(w, j, result), j)

\* the then callback of a loop that returned
thenCallback(w, j, finalPValue) ==
  IF w.loops[j].exit = "completed" /\ ~HasThrown(finalPValue)
  THEN onProgress(invoked(w, "completion", w.loops[j].results), j, finalPValue)
  ELSE IF w.loops[j].exit = "completed"
  THEN [invoked(w, "completion", w.loops[j].results)
          EXCEPT !.state = SET_SIMULATION_RESULTS(@, w.loops[j].results, j)]
  ELSE w

\* the finally callback
finallyCallback(w, j) ==
  retire([w EXCEPT !.state = PAUSE_SIMULATION(@), !.abortControllerRef = None], j)

\* the promise's then / catch / finally callbacks of a loop that returned
settle(w, j) == finallyCallback(thenCallback(w, j, loopPValue(w, j)), j)

Returned(w, j) == w.loops[j].exit # "running" /\ w.loops[j].timer = "none"

\* the promise callbacks run once the loop has returned
resumed(ran, j) == IF ran.loops[j].exit # "running" THEN settle(ran, j) ELSE ran

\* the delay timer of loop j fires: the callback clears timeoutIdRef and
\* resolves the promise, the loop continues in the same task
timerFires(w, j, result) ==
  resumed(runSimulation([w EXCEPT !.timeoutIdRef = None, !.loops[j].timer = "none"],
                        j, result), j)

\* the start branch of the simulation effect
startLoop(w, j, result) ==
  runSimulation([w EXCEPT !.abortControllerRef = Some(j),
                          !.loops = Append(@, NewLoop(w.rendered))], j, result)

\* abortControllerRef.current.abort()
abortLoop(w) ==
  [w EXCEPT !.loops[Val(w.abortControllerRef)].aborted = TRUE,
            !.abortControllerRef = None]

\* clearTimeout(timeoutIdRef.current)
clearTimer(w, id) ==
  retire([w EXCEPT !.loops[id].timer = "cleared", !.timeoutIdRef = None], id)

\* the effect without the clearTimeout of its abort branch
simulationEffect_keepsTimer(w, result) ==
  IF w.rendered.control.isSimulating /\ IsNull(w.abortControllerRef)
  THEN startLoop(w, Len(w.loops) + 1, result)
  ELSE IF ~w.rendered.control.isSimulating /\ ~IsNull(w.abortControllerRef)
  THEN abortLoop(w)
  ELSE w

\* the simulation effect (lines 140-180) on the state of the last render
simulationEffect(w, result) ==
  IF w.rendered.control.isSimulating /\ IsNull(w.abortControllerRef)
  THEN startLoop(w, Len(w.loops) + 1, result)
  ELSE IF ~w.rendered.control.isSimulating /\ ~IsNull(w.abortControllerRef)
  THEN IF ~IsNull(w.timeoutIdRef)
       THEN clearTimer(abortLoop(w), Val(w.timeoutIdRef))
       ELSE abortLoop(w)
  ELSE w

\* the p-value the derived-state effect computes from the new statistic
derivedPValue(snapshot, newObservedStatistic) ==
  calculatePValue(Some(newObservedStatistic),
                  snapshot.results.simulationResults,
                  snapshot.settings.selectedTestStatistic,
                  snapshot.settings.pValueType)

\* the derived-state effect's p-value, computed and dispatched
recomputed(w, newObservedStatistic, newPValue) ==
  IF HasThrown(newPValue)
  THEN [w EXCEPT !.state = SET_OBSERVED_STATISTIC(@, newObservedStatistic),
                 !.crashed = TRUE]
  ELSE [w EXCEPT !.state = SET_P_VALUE(SET_OBSERVED_STATISTIC(@, newObservedStatistic),
                                       newPValue)]

\* the effect without the test for an empty result list
derived_unguarded(w, newObservedStatistic, newPValue) ==
  IF HasThrown(newObservedStatistic) THEN [w EXCEPT !.crashed = TRUE]
  ELSE recomputed(invoked(w, "derived", w.rendered.results.simulationResults),
                  newObservedStatistic, newPValue)

\* the dispatches of the derived-state effect; a statistic that throws here
\* takes the component tree down
derived(w, newObservedStatistic, newPValue) ==
  IF HasThrown(newObservedStatistic) THEN [w EXCEPT !.crashed = TRUE]
  ELSE IF Len(w.rendered.results.simulationResults) = 0
  THEN [w EXCEPT !.state = SET_OBSERVED_STATISTIC(@, newObservedStatistic)]
  ELSE recomputed(invoked(w, "derived", w.rendered.results.simulationResults),
                  newObservedStatistic, newPValue)

observed(w, newObservedStatistic) ==
  derived(w, newObservedStatistic, derivedPValue(w.rendered, newObservedStatistic))

\* the derived-state effect (lines 183-197) on the state of the last render
derivedEffect(w) ==
  observed(w, testStatisticFunction(w.rendered.settings.selectedTestStatistic,
                                    RowsOf(w.rendered, w.rendered.userData)))

\* no function of utils.ts is being applied
NoEvaluation == [function |-> "none", arguments |-> <<>>, result |-> None]

\* ------------------------------------------------------------ payloads
\* a well-formed table: three columns, one complete row, the staging row
PayloadValid ==
  [columns    |-> <<[name |-> "A", color |-> Palette[1]],
                    [name |-> "B", color |-> Palette[2]],
                    [name |-> "C", color |-> Palette[3]]>>,
   rows       |-> <<[data |-> <<Some(7), Some(7), Some(7)>>,
                     assignment |-> Some(0), block |-> None],
                    emptyRow(3)>>,
   colorStack |-> SubSeq(Palette, 4, Len(Palette))]

\* a table with a single column: the reducer checks only that a payload is given
PayloadOneColumn ==
  [columns    |-> <<[name |-> "A", color |-> Palette[1]]>>,
   rows       |-> <<emptyRow(1)>>,
   colorStack |-> Tail(Palette)]

ValidPayloadInputs == {None, Some(PayloadValid)}
PayloadInputs == ValidPayloadInputs \cup {Some(PayloadOneColumn)}

\* ------------------------------------------------------------ actions
Init ==
  /\ state = INITIAL_STATE
  /\ lastOp = [type |-> "INIT", ok |-> TRUE, args |-> <<>>]
  /\ crashed = FALSE
  /\ rendered = INITIAL_STATE
  /\ queued = 0
  /\ pendingEffects = {"simulation", "derived"}
  /\ fresh = {}
  /\ abortControllerRef = None
  /\ timeoutIdRef = None
  /\ loops = <<>>
  /\ simulationSpeedRef = INITIAL_STATE.settings.simulationSpeed
  /\ invocations = {}
  /\ evaluation = NoEvaluation

\* One dispatched action: the reducer's result s becomes the state.  The
\* history depth and the table size explored are capped here; a call that
\* fails is never cut off.
Op(type, args, s, cap) ==
  /\ ~crashed
  /\ Len(s.past) <= cap
  /\ Len(s.userData.rows) <= MaxRows
  /\ Len(s.userData.columns) <= MaxCols
  /\ state' = Canon(s)
  /\ lastOp' = [type |-> type, ok |-> IsNull(s.error),
                args |-> IF IsNull(s.error) THEN args ELSE <<>>]
  /\ UNCHANGED <<crashed, providerVars, evaluation>>

RowIdx == -1..NRows(state)
ColIdx == -1..NCols(state)

setUserData(payloads) ==
  \E p \in payloads : Op("SET_USER_DATA", <<>>, SET_USER_DATA(state, p), MaxPast)

resetUserData == Op("RESET_USER_DATA", <<>>, RESET_USER_DATA(state), MaxPast)

emptyUserData == Op("EMPTY_USER_DATA", <<>>, EMPTY_USER_DATA(state), MaxPast)

\* the TypeError of ADD_ROW on a table without rows is thrown in the event
\* handler and again when React runs the reducer while rendering
addRow ==
  IF ADD_ROW_throws(state)
  THEN /\ ~crashed
       /\ crashed' = TRUE
       /\ lastOp' = [type |-> "ADD_ROW", ok |-> FALSE, args |-> <<>>]
       /\ UNCHANGED <<state, providerVars, evaluation>>
  ELSE Op("ADD_ROW", <<>>, ADD_ROW(state), MaxPast)

deleteRow ==
  \E i \in RowIdx : Op("DELETE_ROW", <<i>>, DELETE_ROW(state, i), MaxPast)

updateCell ==
  \E r \in RowIdx, c \in ColIdx, v \in CellInputs :
    Op("UPDATE_CELL", <<r, c, v>>, UPDATE_CELL(state, r, c, v), MaxPast)

setBlock ==
  \E r \in RowIdx, b \in BlockInputs :
    Op("SET_BLOCK", <<r, b>>, SET_BLOCK(state, r, b), MaxPast)

setAssignment ==
  \E r \in RowIdx, a \in {None} \cup {Some(i) : i \in ColIdx} :
    Op("SET_ASSIGNMENT", <<r, a>>, SET_ASSIGNMENT(state, r, a), MaxPast)

renameColumn ==
  \E i \in ColIdx, n \in NameInputs :
    Op("RENAME_COLUMN", <<i, n>>, RENAME_COLUMN(state, i, n), MaxPast)

addColumn(cap) ==
  \E n \in NameInputs : Op("ADD_COLUMN", <<n>>, ADD_COLUMN(state, n), cap)

removeColumn(cap) ==
  \E i \in ColIdx : Op("REMOVE_COLUMN", <<i>>, REMOVE_COLUMN(state, i), cap)

undo == Op("UNDO", <<>>, UNDO(state), MaxPast + MaxPastColumns)

redo == Op("REDO", <<>>, REDO(state), MaxPast + MaxPastColumns)

StoreNext(payloads) ==
  \/ setUserData(payloads) \/ resetUserData \/ emptyUserData
  \/ addRow \/ deleteRow \/ updateCell \/ setBlock \/ setAssignment
  \/ renameColumn \/ addColumn(MaxPast) \/ removeColumn(MaxPast)
  \/ undo \/ redo

\* every store operation, any payload the reducer accepts
Next == StoreNext(PayloadInputs)

Spec == Init /\ [][Next]_vars

\* every store operation, setTable given well-formed tables only
NextValid == StoreNext(ValidPayloadInputs)

SpecValid == Init /\ [][NextValid]_vars

\* addColumn/removeColumn/undo/redo from the default template
NextColumns ==
  \/ addColumn(MaxPastColumns) \/ removeColumn(MaxPastColumns) \/ undo \/ redo

SpecColumns == Init /\ [][NextColumns]_vars

\* ------------------------------------------------- actions of the provider
\* tables for the engine: two complete rows in different blocks and groups,
\* and the staging row
PayloadTwoGroups ==
  [columns    |-> TemplateUserData.columns,
   rows       |-> <<[data |-> <<Some(1), Some(2)>>, assignment |-> Some(0), block |-> Some("b1")],
                    [data |-> <<Some(3), Some(5)>>, assignment |-> Some(1), block |-> Some("b2")],
                    emptyRow(2)>>,
   colorStack |-> TemplateUserData.colorStack]

PayloadOtherData ==
  [PayloadTwoGroups EXCEPT !.rows[1].data = <<Some(4), Some(4)>>,
                           !.rows[2].data = <<Some(6), Some(9)>>]

EnginePayloads == {Some(PayloadTwoGroups), Some(PayloadOtherData)}

\* two complete rows of group 1 and a row of group 0 whose second cell is empty
PayloadIncompleteRow ==
  [PayloadTwoGroups EXCEPT
     !.rows = <<[data |-> <<Some(1), Some(2)>>, assignment |-> Some(1), block |-> None],
                [data |-> <<Some(3), Some(5)>>, assignment |-> Some(1), block |-> None],
                [data |-> <<Some(7), None>>, assignment |-> Some(0), block |-> None],
                emptyRow(2)>>]

\* two complete rows and a row with every cell filled that has no assignment
PayloadUnassigned ==
  [PayloadTwoGroups EXCEPT
     !.rows = <<[data |-> <<Some(1), Some(2)>>, assignment |-> Some(0), block |-> None],
                [data |-> <<Some(3), Some(5)>>, assignment |-> Some(1), block |-> None],
                [data |-> <<Some(4), Some(4)>>, assignment |-> None, block |-> None],
                emptyRow(2)>>]

StatisticPayloads == {Some(PayloadIncompleteRow), Some(PayloadUnassigned)}

TotalInputs == {1, MaxTotal}

World ==
  [state |-> state, rendered |-> rendered, crashed |-> crashed,
   abortControllerRef |-> abortControllerRef, timeoutIdRef |-> timeoutIdRef,
   loops |-> loops, simulationSpeedRef |-> simulationSpeedRef, invocations |-> {}]

Becomes(w) ==
  /\ state' = w.state
  /\ rendered' = w.rendered
  /\ crashed' = w.crashed
  /\ abortControllerRef' = w.abortControllerRef
  /\ timeoutIdRef' = w.timeoutIdRef
  /\ loops' = w.loops
  /\ invocations' = w.invocations

\* dispatchWithResult: the action is dispatched, so the reducer's result on
\* the state becomes the state; the result returned to the caller comes from
\* the reducer applied to the state of the last render.  replaced names the
\* arrays a successful action replaces by new ones.
dispatchWithResult(type, args, applied, returned, replaced, cap) ==
  /\ ~crashed
  /\ queued < cap
  /\ queued' = queued + 1
  /\ state' = Canon(applied)
  /\ lastOp' = [type |-> type, ok |-> IsNull(returned.error), args |-> <<>>]
  /\ fresh' = IF IsNull(applied.error) THEN fresh \cup replaced ELSE fresh
  /\ invocations' = {}
  /\ UNCHANGED <<crashed, rendered, pendingEffects, abortControllerRef, timeoutIdRef, loops,
               simulationSpeedRef, evaluation>>

loadTable ==
  \E payload \in EnginePayloads :
    /\ Len(state.past) <= MaxTables
    /\ dispatchWithResult("SET_USER_DATA", <<payload>>, SET_USER_DATA(state, payload),
                          SET_USER_DATA(rendered, payload), {"rows"}, MaxQueued)

startSimulation(cap) ==
  dispatchWithResult("START_SIMULATION", <<>>, START_SIMULATION(state),
                     START_SIMULATION(rendered), {}, cap)

pauseSimulation(cap) ==
  dispatchWithResult("PAUSE_SIMULATION", <<>>, PAUSE_SIMULATION(state),
                     PAUSE_SIMULATION(rendered), {}, cap)

clearSimulationData ==
  dispatchWithResult("CLEAR_SIMULATION_DATA", <<>>, CLEAR_SIMULATION_DATA(state),
                     CLEAR_SIMULATION_DATA(rendered), {"results"}, MaxQueued)

setTotalSimulations(totals) ==
  \E total \in totals :
    dispatchWithResult("SET_TOTAL_SIMULATIONS", <<total>>, SET_TOTAL_SIMULATIONS(state, total),
                       SET_TOTAL_SIMULATIONS(rendered, total), {}, MaxQueued)

\* the reducer's SET_BLOCKING_ENABLED action
setBlockingEnabled ==
  \E enabled \in BOOLEAN :
    dispatchWithResult("SET_BLOCKING_ENABLED", <<enabled>>, SET_BLOCKING_ENABLED(state, enabled),
                       SET_BLOCKING_ENABLED(rendered, enabled), {}, MaxQueued)

\* setUserData with one of the given tables
loadTableFrom(payloads) ==
  \E payload \in payloads :
    /\ Len(state.past) <= MaxTables
    /\ dispatchWithResult("SET_USER_DATA", <<payload>>, SET_USER_DATA(state, payload),
                          SET_USER_DATA(rendered, payload), {"rows"}, MaxQueued)

setSelectedTestStatistic ==
  \E stat \in Range(TestStatisticKeys) :
    dispatchWithResult("SET_SELECTED_TEST_STATISTIC", <<stat>>,
                       SET_SELECTED_TEST_STATISTIC(state, stat),
                       SET_SELECTED_TEST_STATISTIC(rendered, stat), {}, MaxQueued)

setPValueType ==
  \E type \in PValueTypes :
    dispatchWithResult("SET_P_VALUE_TYPE", <<type>>, SET_P_VALUE_TYPE(state, type),
                       SET_P_VALUE_TYPE(rendered, type), {}, MaxQueued)

\* values of the speed slider and values outside its range
SpeedInputs == {0, 1, 100, 101}

\* setSimulationSpeed: the ref is written, then the action is dispatched;
\* createActionResult reports a failure only if its callback throws, and
\* neither the assignment nor dispatch does
setSimulationSpeed ==
  \E speed \in SpeedInputs :
    /\ ~crashed
    /\ queued < MaxQueued
    /\ queued' = queued + 1
    /\ simulationSpeedRef' = speed
    /\ state' = Canon(SET_SIMULATION_SPEED(state, speed))
    /\ lastOp' = [type |-> "SET_SIMULATION_SPEED", ok |-> TRUE, args |-> <<speed>>]
    /\ invocations' = {}
    /\ UNCHANGED <<crashed, rendered, pendingEffects, fresh, abortControllerRef,
                   timeoutIdRef, loops, evaluation>>

\* dependency lists, compared with the values of the previous render
simulationDepsChanged ==
  \/ state.control.isSimulating # rendered.control.isSimulating
  \/ "rows" \in fresh
  \/ state.settings.totalSimulations # rendered.settings.totalSimulations
  \/ state.results.array # rendered.results.array
  \/ (IsNull(state.results.array) /\ "results" \in fresh)
  \/ state.results.observedStatistic # rendered.results.observedStatistic
  \/ state.settings.selectedTestStatistic # rendered.settings.selectedTestStatistic
  \/ state.settings.pValueType # rendered.settings.pValueType

derivedDepsChanged ==
  \/ "rows" \in fresh
  \/ state.settings.selectedTestStatistic # rendered.settings.selectedTestStatistic
  \/ state.settings.pValueType # rendered.settings.pValueType
  \/ state.results.array # rendered.results.array
  \/ (IsNull(state.results.array) /\ "results" \in fresh)

\* React renders the dispatched state: the closures now hold it, and the
\* effects whose dependencies changed are scheduled
render ==
  /\ ~crashed
  /\ pendingEffects = {}
  /\ queued > 0 \/ state # rendered
  /\ rendered' = state
  /\ queued' = 0
  /\ pendingEffects' = (IF simulationDepsChanged THEN {"simulation"} ELSE {})
                         \cup (IF derivedDepsChanged THEN {"derived"} ELSE {})
  /\ fresh' = {}
  /\ lastOp' = [type |-> "render", ok |-> TRUE, args |-> <<>>]
  /\ invocations' = {}
  /\ UNCHANGED <<state, crashed, abortControllerRef, timeoutIdRef, loops,
               simulationSpeedRef, evaluation>>

\* the scheduled effects run in the order of their declaration; the promise
\* callbacks of a loop that returned at once run after them
flushEffects ==
  /\ ~crashed
  /\ pendingEffects # {}
  /\ \E result \in simulate(RowsOf(rendered, rendered.userData)) :
       \E w1 \in {IF "simulation" \in pendingEffects
                   THEN simulationEffect(World, result) ELSE World} :
         \E w2 \in {IF "derived" \in pendingEffects THEN derivedEffect(w1) ELSE w1} :
           \E j \in {Len(w2.loops)} :
             \E w3 \in {IF j > Len(loops) /\ Returned(w2, j) THEN settle(w2, j) ELSE w2} :
               /\ j <= MaxLoops
               /\ Becomes(w3)
  /\ pendingEffects' = {}
  /\ lastOp' = [type |-> "effects", ok |-> TRUE, args |-> <<>>]
  /\ UNCHANGED <<queued, fresh, simulationSpeedRef, evaluation>>

\* a pending delay timer expires
timer(cap) ==
  /\ ~crashed
  /\ queued < cap
  /\ queued' = queued + 1
  /\ \E j \in 1..Len(loops) :
       /\ loops[j].timer = "pending"
       /\ \E result \in simulate(loops[j].data) :
            \E w1 \in {timerFires(World, j, result)} : Becomes(w1)
       /\ lastOp' = [type |-> "timer", ok |-> TRUE, args |-> <<>>]
  /\ UNCHANGED <<pendingEffects, fresh, simulationSpeedRef, evaluation>>

\* the state once the provider is mounted, the table s holds is rendered and
\* the effects have run: the observed statistic is the table's
Settled(s) ==
  derivedEffect([state |-> s, rendered |-> s, crashed |-> FALSE,
                 abortControllerRef |-> None, timeoutIdRef |-> None,
                 loops |-> <<>>, invocations |-> {}]).state

LoadedState(payload) ==
  Settled(Canon(SET_USER_DATA(Settled(INITIAL_STATE), payload)))

\* a session in which the user has loaded a table and nothing is pending
InitLoaded ==
  /\ state = LoadedState(Some(PayloadTwoGroups))
  /\ lastOp = [type |-> "effects", ok |-> TRUE, args |-> <<>>]
  /\ crashed = FALSE
  /\ rendered = state
  /\ queued = 0
  /\ pendingEffects = {}
  /\ fresh = {}
  /\ abortControllerRef = None
  /\ timeoutIdRef = None
  /\ loops = <<>>
  /\ simulationSpeedRef = INITIAL_STATE.settings.simulationSpeed
  /\ invocations = {}
  /\ evaluation = NoEvaluation

\* the engine with its settings: React renders after every task
NextEngine ==
  \/ startSimulation(MaxQueued)
  \/ pauseSimulation(MaxQueued)
  \/ clearSimulationData
  \/ setTotalSimulations(TotalInputs)
  \/ render
  \/ flushEffects
  \/ timer(MaxQueued)

SpecEngine == InitLoaded /\ [][NextEngine]_vars

\* start and pause with the engine's reactions: several tasks may dispatch
\* before React renders
NextControl ==
  \/ startSimulation(MaxBatched)
  \/ pauseSimulation(MaxBatched)
  \/ render
  \/ flushEffects
  \/ timer(MaxBatched)

SpecControl == InitLoaded /\ [][NextControl]_vars

\* runs that are stopped and resumed while the iteration budget only grows
NextResume ==
  \/ startSimulation(MaxQueued)
  \/ pauseSimulation(MaxQueued)
  \/ setTotalSimulations({MaxTotal})
  \/ render
  \/ flushEffects
  \/ timer(MaxQueued)

SpecResume == InitLoaded /\ [][NextResume]_vars

\* the table is replaced while the engine runs
NextTable ==
  \/ loadTable
  \/ startSimulation(MaxQueued)
  \/ render
  \/ flushEffects
  \/ timer(MaxQueued)

SpecTable == InitLoaded /\ [][NextTable]_vars

\* the blocking flag is switched while the engine is used
NextBlocking ==
  \/ setBlockingEnabled
  \/ startSimulation(MaxQueued)
  \/ render
  \/ flushEffects
  \/ timer(MaxQueued)

SpecBlocking == InitLoaded /\ [][NextBlocking]_vars

\* the statistic and the tail are changed and tables are loaded while the
\* engine is used
NextStatistic ==
  \/ loadTableFrom(StatisticPayloads)
  \/ setSelectedTestStatistic
  \/ setPValueType
  \/ startSimulation(MaxQueued)
  \/ render
  \/ flushEffects
  \/ timer(MaxQueued)

SpecStatistic == InitLoaded /\ [][NextStatistic]_vars

\* the speed is changed while the engine is used
NextSpeed ==
  \/ setSimulationSpeed
  \/ startSimulation(MaxQueued)
  \/ render
  \/ flushEffects
  \/ timer(MaxQueued)

SpecSpeed == InitLoaded /\ [][NextSpeed]_vars

\* resetUserData, undo and redo as the provider exposes them
resetTable ==
  /\ Len(state.past) <= MaxTables
  /\ dispatchWithResult("RESET_USER_DATA", <<>>, RESET_USER_DATA(state),
                        RESET_USER_DATA(rendered), {"rows", "results"}, MaxQueued)

undoTable ==
  dispatchWithResult("UNDO", <<>>, UNDO(state), UNDO(rendered), {"rows"}, MaxQueued)

redoTable ==
  dispatchWithResult("REDO", <<>>, REDO(state), REDO(rendered), {"rows"}, MaxQueued)

\* the table is reset and its history is walked while the engine is used
NextHistory ==
  \/ resetTable
  \/ undoTable
  \/ redoTable
  \/ setSelectedTestStatistic
  \/ startSimulation(MaxQueued)
  \/ render
  \/ flushEffects
  \/ timer(MaxQueued)

SpecHistory == InitLoaded /\ [][NextHistory]_vars

\* ------------------------------------------- the functions of utils.ts
\* the number of trials and of rows given to a function
MaxTrials == 4
MaxData == 4

\* Seqs(S, n): the sequences over S of length at most n
RECURSIVE Seqs(_, _)
Seqs(S, n) ==
  IF n = 0 THEN {<<>>}
  ELSE Seqs(S, n - 1) \cup {Append(q, x) : q \in {r \in Seqs(S, n - 1) : Len(r) = n - 1}, x \in S}

\* a trial whose difference in means is v
TrialOf(v) ==
  <<[data |-> <<Some(0), Some(0)>>, assignment |-> Some(0), block |-> None],
    [data |-> <<Some(0), Some(v)>>, assignment |-> Some(1), block |-> None]>>

TrialsOf(simulated) == [i \in 1..Len(simulated) |-> TrialOf(simulated[i])]

ObservedInputs == {-5, 0, 5}
SimulatedInputs == {-6, 1, 5, 6, 10}

\* calls of calculatePValue: an observed statistic, the statistics of one to
\* MaxTrials trials, a tail
PValueCalls ==
  {[function  |-> "calculatePValue",
    arguments |-> [observed |-> o, simulated |-> sim, pValueType |-> type],
    result    |-> None] :
     o \in ObservedInputs, sim \in Seqs(SimulatedInputs, MaxTrials) \ {<<>>},
     type \in PValueTypes}

\* rows of three columns with every cell present, assigned to one of them or
\* to a column that does not exist
RowInputs ==
  {[data |-> <<Some(cells[1]), Some(cells[2]), Some(cells[3])>>,
    assignment |-> Some(a), block |-> None] :
     cells \in {<<1, 2, 3>>, <<4, 6, 9>>}, a \in 0..3}

\* calls of a test statistic on up to MaxData rows
StatisticCalls ==
  {[function |-> f, arguments |-> [data |-> data], result |-> None] :
     f \in Range(TestStatisticKeys), data \in Seqs(RowInputs, MaxData)}

InitFunctions ==
  /\ \/ evaluation \in PValueCalls
     \/ evaluation \in StatisticCalls
  /\ state = INITIAL_STATE
  /\ lastOp = [type |-> "INIT", ok |-> TRUE, args |-> <<>>]
  /\ crashed = FALSE
  /\ rendered = INITIAL_STATE
  /\ queued = 0
  /\ pendingEffects = {"simulation", "derived"}
  /\ fresh = {}
  /\ abortControllerRef = None
  /\ timeoutIdRef = None
  /\ loops = <<>>
  /\ simulationSpeedRef = INITIAL_STATE.settings.simulationSpeed
  /\ invocations = {}

\* the function returns r
Returns(name, r) ==
  /\ evaluation.function = name
  /\ IsNull(evaluation.result)
  /\ evaluation' = [evaluation EXCEPT !.result = Some(r)]
  /\ lastOp' = [type |-> name, ok |-> ~HasThrown(r), args |-> <<>>]
  /\ UNCHANGED <<state, crashed, providerVars>>

applyCalculatePValue ==
  Returns("calculatePValue",
          calculatePValue(Some(Num(evaluation.arguments.observed)),
                          TrialsOf(evaluation.arguments.simulated),
                          "differenceInMeans",
                          evaluation.arguments.pValueType))

applyDifferenceInMeans ==
  Returns("differenceInMeans", differenceInMeans(evaluation.arguments.data))

applyWilcoxonRankSum ==
  Returns("wilcoxonRankSum", wilcoxonRankSum(evaluation.arguments.data))

NextFunctions ==
  \/ applyCalculatePValue
  \/ applyDifferenceInMeans
  \/ applyWilcoxonRankSum

SpecFunctions == InitFunctions /\ [][NextFunctions]_vars

\* ============================================================== claims
TableMutations ==
  {"SET_USER_DATA", "RESET_USER_DATA", "EMPTY_USER_DATA", "ADD_ROW", "DELETE_ROW",
   "UPDATE_CELL", "SET_ASSIGNMENT", "SET_BLOCK", "RENAME_COLUMN", "ADD_COLUMN",
   "REMOVE_COLUMN"}

\* the step just taken is a successful table mutation
MutationStep == lastOp'.type \in TableMutations /\ lastOp'.ok

\* the step just taken is a call that returned an error
FailedStep == ~lastOp'.ok /\ ~crashed'

HistoryView(s) == <<CurrentView(s), PastView(s), FutureView(s)>>

\* C1: after every successful table mutation, an undo() issued immediately
\* makes the current table equal to the table as it was just before the
\* mutation (columns, colorPool, and every row's data, assignment, block).
C1_UndoRestoresPreMutationTable ==
  [][MutationStep => CurrentView(UNDO(state')) = CurrentView(state)]_vars

\* C2: from every state with a non-empty past, undo() followed immediately by
\* redo() restores the table that was current before the undo and leaves the
\* past and future stacks as they were.
C2_RedoAfterUndoRestores ==
  [][(lastOp'.type = "UNDO" /\ lastOp'.ok)
       => /\ IsNull(REDO(state').error)
          /\ HistoryView(REDO(state')) = HistoryView(state)]_vars

\* a successful undo was taken with entries left on both stacks
C2_Witness ==
  /\ lastOp.type = "UNDO" /\ lastOp.ok
  /\ Len(state.past) > 0 /\ Len(state.future) > 0
  /\ CurrentView(REDO(state)) # CurrentView(state)

\* C3: every successful mutation other than undo/redo pushes the pre-mutation
\* table on top of past (earlier entries unchanged) and leaves future empty.
C3_MutationPushesPreMutationTable ==
  [][MutationStep
       => /\ PastView(state') = Append(PastView(state), CurrentView(state))
          /\ state'.future = <<>>
          /\ ~IsNull(REDO(state').error)]_vars

\* C4: every operation that fails leaves the table, the past stack and the
\* future stack exactly as they were before the call.
C4_FailureChangesNothing ==
  [][FailedStep => /\ ~IsNull(state'.error)
                   /\ HistoryView(state') = HistoryView(state)]_vars

\* an undo failed on an empty past while the redo stack held a table
C4_Witness ==
  /\ lastOp.type = "UNDO" /\ ~lastOp.ok
  /\ state.error = Some("No more actions to undo")
  /\ Len(state.future) > 0

\* C5: in every reachable state every present assignment of a row of the
\* current table lies in [0, columns.length).
C5_AssignmentsInRange ==
  \A i \in 1..NRows(state) :
    LET a == state.heap[state.userData.rows[i]].assignment
    IN IsNull(a) \/ (0 <= Val(a) /\ Val(a) < NCols(state))

\* C6: in every reachable state the table has at least one row (its last row
\* being the staging row) and addRow is applicable.
C6_StagingRowAlwaysPresent ==
  /\ NRows(state) >= 1
  /\ ~ADD_ROW_throws(state)
  /\ ~crashed

\* C7: in every reachable state the table has at least 2 columns.
C7_AtLeastTwoColumns == NCols(state) >= 2

\* C8: after any sequence of addColumn/removeColumn/undo/redo from the default
\* template, the colors of the columns together with the colors in the pool
\* are exactly the fixed palette: none missing, duplicated or foreign.
ColorsHeld(ud) == [i \in 1..Len(ud.columns) |-> ud.columns[i].color] \o ud.colorStack

C8_ColorsPartitionPalette ==
  /\ Len(ColorsHeld(state.userData)) = Len(Palette)
  /\ Range(ColorsHeld(state.userData)) = Range(Palette)

\* C9: for every reachable table with more than 2 columns and every valid
\* index i, removeColumn(i) followed by addColumn(name) gives the new column
\* the color the removed column had.
C9_RemoveThenAddReturnsSameColor ==
  [][(lastOp'.type = "REMOVE_COLUMN" /\ lastOp'.ok)
       => \A n \in {m \in NameInputs : ~IsBlank(m)} :
            LET removed == state.userData.columns[lastOp'.args[1] + 1]
                added == ADD_COLUMN(state', n).userData.columns
            IN added[Len(added)].color = removed.color]_vars

\* C10: updateCell on the staging (last) row with a column index in range and
\* a present value increases rows.length by exactly one, sets the edited
\* row's assignment to columnIndex and its cell to value, and the new last
\* row has every cell absent.
C10_StagingEditAppendsRow ==
  [][(/\ lastOp'.type = "UPDATE_CELL" /\ lastOp'.ok
      /\ lastOp'.args[1] = NRows(state) - 1
      /\ ~IsNull(lastOp'.args[3]))
       => LET r == lastOp'.args[1]
              c == lastOp'.args[2]
              v == lastOp'.args[3]
              rows == RowsOf(state', state'.userData)
          IN /\ NRows(state') = NRows(state) + 1
             /\ rows[r + 1].assignment = Some(c)
             /\ rows[r + 1].data[c + 1] = v
             /\ rows[r + 1].data = SpliceCell(RowsOf(state, state.userData)[r + 1].data, c, v)
             /\ rows[NRows(state')].data = Nulls(NCols(state))
             /\ \A i \in 1..NCols(state') : IsNull(rows[NRows(state')].data[i])]_vars

\* the staging row of a table holding other rows was edited in a column other
\* than the one it was assigned to
C10_Witness ==
  /\ lastOp.type = "UPDATE_CELL" /\ lastOp.ok
  /\ lastOp.args[1] = NRows(state) - 2
  /\ lastOp.args[1] >= 1
  /\ ~IsNull(lastOp.args[3])
  /\ state.heap[state.userData.rows[NRows(state) - 1]].assignment = Some(lastOp.args[2])
  /\ lastOp.args[2] >= 1

\* C20: when addColumn takes the table from exactly 2 to exactly 3 columns and
\* the selected test statistic does not support multiple treatment groups,
\* the statistic selected afterwards supports multiple treatments (it is the
\* first registered statistic that does).
C20_AddColumnSelectsMultiTreatmentStatistic ==
  [][(/\ lastOp'.type = "ADD_COLUMN" /\ lastOp'.ok
      /\ NCols(state) = 2 /\ NCols(state') = 3
      /\ ~supportsMultipleTreatments[state.settings.selectedTestStatistic])
       => /\ supportsMultipleTreatments[state'.settings.selectedTestStatistic]
          /\ Some(state'.settings.selectedTestStatistic) = FirstMultiTreatment]_vars

\* --------------------------------------------------------- engine claims
\* the state without its error field
Untouched(s) == [s EXCEPT !.error = None]

\* C11: startSimulation while the engine is already running returns a failure
\* and leaves simulationResults, the table and isSimulating unchanged;
\* pauseSimulation while the engine is idle returns a failure and leaves the
\* state unchanged.
C11_StartWhileRunningPauseWhileIdleFail ==
  [][/\ (lastOp'.type = "START_SIMULATION" /\ state.control.isSimulating)
          => /\ ~lastOp'.ok
             /\ state'.results = state.results
             /\ CurrentView(state') = CurrentView(state)
             /\ state'.control.isSimulating
     /\ (lastOp'.type = "PAUSE_SIMULATION" /\ ~state.control.isSimulating)
          => /\ ~lastOp'.ok
             /\ Untouched(state') = Untouched(state)]_vars

\* a loop that is suspended on a delay whose timer will fire
Waiting(j) == loops[j].timer = "pending"

\* C12: in every reachable state, whatever the interleaving of start, pause,
\* timer expiry and the effect's reaction to state changes, at most one
\* simulation loop that can still append trials is active: at most one loop
\* has a timer that will fire.
C12_AtMostOneActiveLoop ==
  \A i, j \in 1..Len(loops) : (Waiting(i) /\ Waiting(j)) => i = j

\* a second loop waits on its delay after the first one was stopped
C12_Witness ==
  /\ Len(loops) = 2
  /\ loops[1].timer = "cleared"
  /\ Waiting(2)
  /\ ~loops[2].aborted

Appended(s, t) == Len(t.results.simulationResults) > Len(s.results.simulationResults)

\* C13: once pauseSimulation has succeeded, no further trial is appended to
\* simulationResults until the next successful startSimulation, whatever the
\* interleaving of the pause with the pending delay timer and the effect's
\* abort step; in particular the timer that expires right after the pause
\* appends nothing.
C13_NoTrialAfterPause ==
  [][(/\ lastOp.type = "PAUSE_SIMULATION" /\ lastOp.ok
      /\ ~state.control.isSimulating
      /\ lastOp'.type = "timer")
       => ~Appended(state, state')]_vars

\* C14: after a successful pause the running loop exits (its run completes as
\* aborted) and no delay timer or suspended iteration of it remains pending:
\* no loop is left suspended on a delay that can no longer end.
C14_NoLoopSuspendedForever ==
  \A j \in 1..Len(loops) : ~(loops[j].exit = "running" /\ loops[j].timer = "cleared")

IsPrefix(a, b) == Len(a) <= Len(b) /\ SubSeq(b, 1, Len(a)) = a

\* C15: an engine stopped holding k < totalSimulations results and started
\* again keeps the k results as an unchanged prefix and appends the new
\* trials after them; between explicit clears simulationResults only ever
\* grows by appending: unless a clear was dispatched since, the results of
\* every rendered state extend those of the state rendered before.
C15_ResultsGrowByAppending ==
  [][("results" \notin fresh)
       => IsPrefix(rendered.results.simulationResults,
                   rendered'.results.simulationResults)]_vars

\* a second loop, started after the first was stopped holding one result of
\* two, has appended the second trial
C15_Witness ==
  /\ Len(loops) = 2
  /\ loops[1].timer = "cleared"
  /\ loops[2].existing = 1
  /\ rendered.results.array = Some(2)
  /\ Len(rendered.results.simulationResults) = 2

\* loop j returns from its last iteration in this step
Completes(j) ==
  /\ j \in 1..Len(loops')
  /\ loops'[j].exit = "completed"
  /\ (j > Len(loops) \/ loops[j].exit = "running")

\* the number of results loop j was started with, and its iteration budget
StartedWith(j) ==
  IF j > Len(loops) THEN Len(rendered.results.simulationResults) ELSE loops[j].existing

BudgetOf(j) ==
  IF j > Len(loops) THEN rendered.settings.totalSimulations ELSE loops[j].iterations

\* the effects start a run while the previous one is suspended by a pause
Resumes ==
  /\ Len(loops') > Len(loops)
  /\ Len(loops) >= 1
  /\ loops[Len(loops)].timer = "cleared"

\* C16 as stated: resuming a paused engine with totalSimulations unchanged
\* appends zero new trials (in SpecResume the budget still has its initial
\* value only if it was never changed).
C16_ResumeUnchangedAppendsNothing ==
  [][(Resumes /\ rendered.settings.totalSimulations = InitialTotalSimulations)
       => ~Appended(state, state')]_vars

\* C16, amended: a run started on k results with budget T that is left to
\* complete has appended exactly T - k trials if k < T and none otherwise:
\* none when the engine holds T results already, exactly d when T was
\* increased by d after a run had completed.
C16_RunAppendsUpToBudget ==
  [][\A j \in 1..Len(loops') :
       Completes(j)
         => Len(state'.results.simulationResults) - StartedWith(j)
              = IF BudgetOf(j) > StartedWith(j) THEN BudgetOf(j) - StartedWith(j) ELSE 0]_vars

\* a second run, started after the first had completed and the budget was
\* raised, has completed on a timer holding MaxTotal results
C16_Witness ==
  /\ lastOp.type = "timer"
  /\ Len(loops) = 2
  /\ loops[1].exit = "completed"
  /\ loops[2].exit = "completed"
  /\ state.results.array = Some(2)
  /\ Len(state.results.simulationResults) = MaxTotal
  /\ state.settings.totalSimulations = MaxTotal

\* C17: a run that is started and never paused returns to idle, and then
\* simulationResults.length equals the current totalSimulations (when the run
\* started with no more results than that), also when totalSimulations was
\* changed while the run was in progress.
C17_CompletedRunHoldsCurrentTotal ==
  [][\A j \in 1..Len(loops') :
       (Completes(j) /\ StartedWith(j) <= state'.settings.totalSimulations)
         => /\ ~state'.control.isSimulating
            /\ Len(state'.results.simulationResults) = state'.settings.totalSimulations]_vars

DataOf(rows) == [i \in 1..Len(rows) |-> rows[i].data]

\* C18: when the table is mutated while the engine is running the loop is
\* restarted on the new table: once the mutated table has been rendered and
\* the effects of that render have run, every trial a timer appends is made
\* of the valid rows of the current table.
C18_TrialsUseCurrentTable ==
  [][(/\ lastOp'.type = "timer"
      /\ Appended(state, state')
      /\ pendingEffects = {}
      /\ queued = 0
      /\ RowsOf(rendered, rendered.userData) = RowsOf(state, state.userData))
       => LET trials == state'.results.simulationResults
          IN DataOf(trials[Len(trials)])
               = DataOf(filterValidRows(RowsOf(state, state.userData)))]_vars

\* the number of rows of block b that carry assignment a
CountIn(rows, b, a) ==
  Cardinality({i \in 1..Len(rows) : rows[i].block = b /\ rows[i].assignment = a})

BlockPreserving(pre, trial) ==
  /\ Len(trial) = Len(pre)
  /\ \A i \in 1..Len(pre) : trial[i].data = pre[i].data /\ trial[i].block = pre[i].block
  /\ \A i, k \in 1..Len(pre) :
       CountIn(trial, pre[i].block, pre[k].assignment)
         = CountIn(pre, pre[i].block, pre[k].assignment)

ValidRows(rows) == Pick(rows, Ascending(completeRows(rows)))

\* every dispatched action has been rendered and the effects have run
Quiet ==
  /\ ~crashed
  /\ queued = 0
  /\ pendingEffects = {}
  /\ rendered = state

\* C21: once a mutation of the table or of the selected statistic has
\* settled, observedStatistic is the selected statistic computed over exactly
\* the valid rows of the current table (every cell present and a present
\* assignment); incomplete rows and the staging row do not contribute.
C21_ObservedStatisticOverValidRows ==
  Quiet =>
    state.results.observedStatistic =
      Some(testStatisticFunction(state.settings.selectedTestStatistic,
                                 ValidRows(RowsOf(state, state.userData))))

\* nothing is pending and no loop is running or suspended
Idle ==
  /\ Quiet
  /\ IsNull(abortControllerRef)
  /\ \A j \in 1..Len(loops) : ~Waiting(j)

\* C22: whenever simulationResults is not empty and no recomputation is
\* pending, pValue is the estimate for the current observedStatistic, the
\* trials held in simulationResults under the currently selected statistic
\* and the current tail type.
C22_PValueIsEstimateUnderCurrentSettings ==
  (Idle /\ Len(state.results.simulationResults) > 0) =>
    state.results.pValue =
      Some(calculatePValue(state.results.observedStatistic,
                           state.results.simulationResults,
                           state.settings.selectedTestStatistic,
                           state.settings.pValueType))

\* the derived-state effect of this step evaluates the Wilcoxon statistic on
\* rows that do not form exactly two groups
ObservedWilcoxonFails ==
  /\ lastOp'.type = "effects"
  /\ "derived" \in pendingEffects
  /\ rendered.settings.selectedTestStatistic = "wilcoxonRankSum"
  /\ HasThrown(wilcoxonRankSum(RowsOf(rendered, rendered.userData)))

\* a loop of this step evaluates the Wilcoxon statistic on a trial that does
\* not form exactly two groups
TrialWilcoxonFails ==
  \E j \in 1..Len(loops') :
    /\ loops'[j].exit = "threw"
    /\ (j > Len(loops) \/ loops[j].exit = "running")

\* C27: when the Wilcoxon statistic is evaluated on rows that do not form
\* exactly two groups, as observed statistic or for a trial of the loop, the
\* failure is recorded in lastError, the controller keeps accepting
\* operations, and table, history and simulationResults are unchanged.
C27_WilcoxonFailureIsRecoverable ==
  [][(ObservedWilcoxonFails \/ TrialWilcoxonFails)
       => /\ ~crashed'
          /\ ~IsNull(state'.error)
          /\ HistoryView(state') = HistoryView(state)
          /\ state'.results.simulationResults = state.results.simulationResults]_vars

\* C30: every trial a loop has produced holds exactly the valid rows of the
\* table the loop was started on (every cell present and a present
\* assignment, whatever their position), so it has at least 2 rows.
C30_TrialsHoldExactlyTheValidRows ==
  \A j \in 1..Len(loops) :
    \A k \in (loops[j].existing + 1)..Len(loops[j].results) :
      /\ DataOf(loops[j].results[k]) = DataOf(ValidRows(loops[j].data))
      /\ Len(loops[j].results[k]) >= 2

\* simulationResults is empty, pValue and observedStatistic are absent
Wiped(s) ==
  /\ s.results.simulationResults = <<>>
  /\ IsNull(s.results.pValue)
  /\ IsNull(s.results.observedStatistic)

\* a step of the provider itself: no call of the user
EngineStep == lastOp'.type \in {"render", "effects", "timer"}

\* C23: clearSimulationData() leaves simulationResults empty and pValue and
\* observedStatistic absent, and leaves the table, past, future and the
\* settings unchanged; with the engine idle the results it wiped stay wiped
\* while the provider reacts to the call, until the user's next call.
C23_ClearLeavesResultsWiped ==
  [][/\ lastOp'.type = "CLEAR_SIMULATION_DATA"
          => /\ Wiped(state')
             /\ HistoryView(state') = HistoryView(state)
             /\ state'.settings = state.settings
     /\ (/\ EngineStep
         /\ Wiped(state)
         /\ ~state.control.isSimulating
         /\ IsNull(abortControllerRef)
         /\ \A j \in 1..Len(loops) : ~Waiting(j))
          => Wiped(state')]_vars

\* C29: the error of a failed call is retained until the user's next call:
\* the provider's own updates (progress ticks that set the results and the
\* p-value, the observed statistic, the loop's termination) neither erase a
\* retained error nor create one.
C29_EngineUpdatesKeepLastError ==
  [][EngineStep => state'.error = state.error]_vars

\* the speeds the settings allow
ValidSpeeds == {speed \in SpeedInputs \cup {InitialSimulationSpeed} : speed >= 1 /\ speed <= 100}

\* C28: setSimulationSpeed with a value outside 1..100 returns a failure and
\* leaves unchanged both settings.simulationSpeed and the speed the engine
\* uses for its delay; in every state the speed the engine holds, and the
\* speed every delay was computed from, lies in 1..100.
C28_InvalidSpeedIsRejected ==
  [][/\ (lastOp'.type = "SET_SIMULATION_SPEED" /\ lastOp'.args[1] \notin ValidSpeeds)
          => /\ ~lastOp'.ok
             /\ state'.settings.simulationSpeed = state.settings.simulationSpeed
             /\ simulationSpeedRef' = simulationSpeedRef
     /\ simulationSpeedRef' \in ValidSpeeds
     /\ \A j \in 1..Len(loops') :
          IsNull(loops'[j].speed) \/ Val(loops'[j].speed) \in ValidSpeeds]_vars

\* ------------------------------------------------ the functions of utils.ts
\* x is the number n / d (d > 0)
IsQuotient(x, n, d) == x.d > 0 /\ x.n * d = n * x.d

\* the simulated statistics at least as extreme as the observed one
ExtremeCount(simulated, obs, pValueType) ==
  Cardinality({i \in 1..Len(simulated) :
                 IF pValueType = "two-tailed" THEN Abs(simulated[i]) >= Abs(obs)
                 ELSE IF pValueType = "left-tailed" THEN simulated[i] <= obs
                 ELSE simulated[i] >= obs})

\* C24: for every observed value, non-empty sequence of simulated statistics
\* and tail type the estimator returns extremeCount / simulated.length, where
\* a statistic s is extreme if |s| >= |observed| (two-tailed), s <= observed
\* (left-tailed), s >= observed (right-tailed).
C24_EstimatorIsShareOfExtremeTrials ==
  (evaluation.function = "calculatePValue" /\ ~IsNull(evaluation.result))
    => IsQuotient(Val(evaluation.result),
                  ExtremeCount(evaluation.arguments.simulated,
                               evaluation.arguments.observed,
                               evaluation.arguments.pValueType),
                  Len(evaluation.arguments.simulated))

\* observed 5, simulated 1, 5, 6, 10, two-tailed: 3 of 4
C24_Witness ==
  /\ evaluation.function = "calculatePValue"
  /\ evaluation.arguments = [observed |-> 5, simulated |-> <<1, 5, 6, 10>>,
                             pValueType |-> "two-tailed"]
  /\ evaluation.result = Some([n |-> 3, d |-> 4])

\* the rows of data assigned to column g, and the sum of their cells of
\* column g
GroupOf(data, g) == {i \in 1..Len(data) : data[i].assignment = Some(g)}

RECURSIVE CellSum(_, _, _)
CellSum(data, g, rows) ==
  IF rows = {} THEN 0
  ELSE CellSum(data, g, rows \ {CHOOSE i \in rows : TRUE})
         + Val(data[CHOOSE i \in rows : TRUE].data[g + 1])

\* x is sum1 / n1 - sum0 / n0
IsDifferenceOfMeans(x, sum1, n1, sum0, n0) ==
  IsQuotient(x, sum1 * n0 - sum0 * n1, n1 * n0)

\* C25: for valid rows with groups 0 and 1 both non-empty (other groups may
\* be present) differenceInMeans returns the mean of cell 1 over the rows
\* assigned to 1 minus the mean of cell 0 over the rows assigned to 0, so the
\* rows assigned to another column do not change it; for no rows it returns 0.
C25_DifferenceInMeansOfGroupsOneAndZero ==
  (evaluation.function = "differenceInMeans" /\ ~IsNull(evaluation.result))
    => /\ (GroupOf(evaluation.arguments.data, 0) # {} /\ GroupOf(evaluation.arguments.data, 1) # {})
            => IsDifferenceOfMeans(
                 Val(evaluation.result),
                 CellSum(evaluation.arguments.data, 1, GroupOf(evaluation.arguments.data, 1)),
                 Cardinality(GroupOf(evaluation.arguments.data, 1)),
                 CellSum(evaluation.arguments.data, 0, GroupOf(evaluation.arguments.data, 0)),
                 Cardinality(GroupOf(evaluation.arguments.data, 0)))
       /\ evaluation.arguments.data = <<>> => evaluation.result = Some(Num(0))

\* two rows of group 0, one of group 1 and one of group 2: 6 - (1 + 4) / 2
C25_Witness ==
  /\ evaluation.function = "differenceInMeans"
  /\ Cardinality(GroupOf(evaluation.arguments.data, 0)) = 2
  /\ Cardinality(GroupOf(evaluation.arguments.data, 1)) = 1
  /\ Cardinality(GroupOf(evaluation.arguments.data, 2)) = 1
  /\ evaluation.result = Some([n |-> 7, d |-> 2])

\* twice the average rank of row i's first cell among the rows of data: ties
\* share the mean of the positions they occupy
TwiceAverageRank(data, i) ==
  2 * Cardinality({j \in 1..Len(data) : Val(data[j].data[1]) < Val(data[i].data[1])})
    + Cardinality({j \in 1..Len(data) : Val(data[j].data[1]) = Val(data[i].data[1])}) + 1

RECURSIVE TwiceRankSum(_, _)
TwiceRankSum(data, rows) ==
  IF rows = {} THEN 0
  ELSE TwiceRankSum(data, rows \ {CHOOSE i \in rows : TRUE})
         + TwiceAverageRank(data, CHOOSE i \in rows : TRUE)

\* 2 * U1 for the group of rows g1 of size n1
TwiceU(data, g1, n1) == TwiceRankSum(data, g1) - n1 * (n1 + 1)

Min(a, b) == IF a <= b THEN a ELSE b

\* the groups of data are exactly g and h
TwoGroups(data, g, h) ==
  /\ g < h
  /\ GroupOf(data, g) # {}
  /\ GroupOf(data, h) # {}
  /\ \A i \in 1..Len(data) : i \in GroupOf(data, g) \cup GroupOf(data, h)

\* C26: for every two-group input the Wilcoxon statistic is
\* min(U1, n1 * n2 - U1) with U1 = rank sum of one group - n1 * (n1 + 1) / 2,
\* the ranks being average ranks (tied values share the mean of their ranks).
C26_WilcoxonWithAverageRanks ==
  (evaluation.function = "wilcoxonRankSum" /\ ~IsNull(evaluation.result))
    => \A g, h \in 0..3 :
         TwoGroups(evaluation.arguments.data, g, h)
           => IsQuotient(
                Val(evaluation.result),
                Min(TwiceU(evaluation.arguments.data, GroupOf(evaluation.arguments.data, g),
                           Cardinality(GroupOf(evaluation.arguments.data, g))),
                    2 * Cardinality(GroupOf(evaluation.arguments.data, g))
                      * Cardinality(GroupOf(evaluation.arguments.data, h))
                      - TwiceU(evaluation.arguments.data, GroupOf(evaluation.arguments.data, g),
                               Cardinality(GroupOf(evaluation.arguments.data, g)))),
                2)

\* ------------------------------------------- results returned to the caller
\* the step just taken is a call made through dispatchWithResult
ControlCalls == {"START_SIMULATION", "PAUSE_SIMULATION"}

\* C32: the success/failure value returned by a write-surface call agrees
\* with what the reducer did to the state the action was applied to, also
\* when several calls are issued before the provider has rendered again: the
\* call returns success exactly when the dispatched action left no error.
C32_ReturnedResultAgreesWithReducer ==
  [][lastOp'.type \in ControlCalls => (lastOp'.ok <=> IsNull(state'.error))]_vars

\* ------------------------------------------------- the frame of undo/redo
HistorySteps == {"UNDO", "REDO"}

TrialSteps == {"timer", "effects"}

\* C33: after clearSimulationData() or resetTable() issued while the engine
\* is running, none of the trials accumulated before the clear reappears in
\* simulationResults: once the results are empty, simulationResults holds
\* only trials generated afterwards, so the first engine step after the
\* clear leaves at most the one trial it generates.
C33_NoTrialFromBeforeTheClear ==
  [][(Len(state.results.simulationResults) = 0 /\ lastOp'.type \in TrialSteps)
       => Len(state'.results.simulationResults) <= 1]_vars

\* --------------------------------------------- the calls of the estimator
\* C31: the p-value estimator is never invoked with zero simulated trials:
\* every call made by the loop's iteration, by the completion callback or by
\* the derived-state recompute passes a non-empty result list, and the
\* pValue held by the state is never NaN.
C31_EstimatorNeverGivenZeroTrials ==
  /\ \A call \in invocations : call.trials > 0
  /\ ~IsNull(state.results.pValue) => ~IsNaN(Val(state.results.pValue))

\* a run has completed and its completion callback has called the estimator
C31_Witness ==
  /\ \E call \in invocations : call.site = "completion"
  /\ ~IsNull(state.results.pValue)
  /\ ~state.control.isSimulating
====
